---- MODULE Spec2Model ----
(***************************************************************************)
(* Sync orchestration of the UrbaneBolt tracking backend: the distributed  *)
(* rate limiter, the distributed semaphore and the circuit breaker of      *)
(* backend/src/queue/tracking-queue.ts, and the worker of                  *)
(* unnamed/part_009 (fetchTracking, syncSingleAwb) that ties them          *)
(* together.                                                               *)
(*                                                                         *)
(* Every Redis command and every SQL statement is one atomic step; a       *)
(* worker can be preempted at every await between two of them.  Time is a  *)
(* single wall clock counted in ticks; the durations of the code keep      *)
(* their names and their order, scaled to a few ticks.                     *)
(***************************************************************************)
EXTENDS Integers, FiniteSets, Sequences, TLC

\* ------------------------------------------------------------------ bounds
\* CONFIG.REQUESTS_PER_MINUTE (60), scaled.
maxRequests == 1
\* windowMs of the rate limiter (60000 ms), in ticks.
windowMs == 2
\* CONFIG.MAX_CONCURRENT_REQUESTS (20), scaled.
maxConcurrent == 1
\* CONFIG.REQUEST_TIMEOUT (30000 ms), in ticks.
REQUEST_TIMEOUT == 2
\* CONFIG.CIRCUIT_BREAKER_RESET_TIMEOUT (30000 ms), in ticks.
resetTimeout == 1
\* maxWaitMs that fetchTracking passes to waitForSlot (30000 ms), in ticks.
rateWaitMs == 1
\* The 100 attempts of fetchTracking's semaphore loop, scaled.
semAttempts == 2

\* CONFIG.BATCH_SIZE (20), the limit of the full sweep (10000) and the LIMIT of
\* the priority sweep (100), scaled.
BATCH_SIZE == 2
SWEEP_LIMIT == 3
PRIORITY_LIMIT == 2

\* The browser client: CONFIG.maxConcurrent as shipped, the cap configure()
\* applies, CONFIG.maxRequestsPerMinute, the breaker threshold, the minute and
\* the breaker's reset delay in ticks, the requests made and the last tick.
clientMaxConcurrent == 2
CONCURRENT_CAP == 3
maxRequestsPerMinute == 2
CIRCUIT_THRESHOLD == 2
MINUTE == 2
CIRCUIT_RESET_MS == 1
MaxClientRequests == 3
ClientMaxTime == 3
\* POST /sync: the requests followed.
MaxSyncRequests == 2

\* --------------------------------------------------------------- constants
failureThreshold == 5
SYNC_FAILURES_CAP == 10
INT4_MAX == 2147483647
MAX_SYNC_AWBS == 20
retryAttempts == 2

\* ttlMs of the semaphore: CONFIG.REQUEST_TIMEOUT + 5000 ms, the 5000 ms
\* being one tick.
ttlMs == REQUEST_TIMEOUT + 1

\* Last tick of the clock: one tick after a slot taken at tick 0 has expired.
MaxTime == ttlMs + 1

\* The calls the fleet makes concurrently: those that run syncSingleAwb, and
\* all of them, which run fetchTracking alone.
Workers == {"w1", "w2"}
Fleet == Workers \cup {"w3"}
AWBS == {"AWB1"}
\* Values math.random() can return inside the rate limiter's Lua script.
LuaRandom == {0, 1}
\* currentStatusCode values of the upstream payload.
StatusCodes == {"OFD"}
\* shipperName values of the upstream payload (not part of the digest).
ShipperNames == {"S1"}

\* Date.now() at tick t, in whole seconds since the epoch (the millisecond
\* value is 1000 times this and does not fit the checker's integers).
DateNowSeconds(t) == 1700000000 + t

Min(a, b) == IF a < b THEN a ELSE b

\* A NULL timestamp.
NullTime == 0 - 1

\* ------------------------------------------------------ calculate_next_sync
\* POWER(2, n)::INTEGER.
RECURSIVE POWER2(_)
POWER2(n) == IF n <= 0 THEN 1 ELSE 2 * POWER2(n - 1)

\* The CASE of calculate_next_sync, in minutes (the table's clock counts a
\* tick as a minute).
base_interval(p_status_code) ==
    CASE p_status_code = "DDL" -> 24 * 60
      [] p_status_code = "RTO" -> 12 * 60
      [] p_status_code = "CAN" -> 24 * 60
      [] p_status_code = "OFD" -> 30
      [] p_status_code = "DDS" -> 30
      [] p_status_code = "UDD" -> 2 * 60
      [] OTHER -> 60

\* The multiplier without LEAST(.., 24).
backoff_multiplierUncapped(p_sync_failures) == POWER2(p_sync_failures)

\* LEAST(POWER(2, p_sync_failures)::INTEGER, 24).
backoff_multiplier(p_sync_failures) == Min(POWER2(p_sync_failures), 24)

\* calculate_next_sync(p_status_code, p_sync_failures) evaluated at NOW() = t.
calculate_next_sync(p_status_code, p_sync_failures, t) ==
    IF p_sync_failures > 0
    THEN t + base_interval(p_status_code) * backoff_multiplier(p_sync_failures)
    ELSE t + base_interval(p_status_code)

\* ------------------------------------------------------------ Redis zsets
\* A sorted set is a set of [member, score] with distinct members.
ZREMRANGEBYSCORE(z, max) == {e \in z : e.score > max}
ZCARD(z) == Cardinality(z)
ZADD(z, score, member) ==
    {e \in z : e.member # member} \cup {[member |-> member, score |-> score]}
ZREM(z, member) == {e \in z : e.member # member}

VARIABLES
    now,          \* the wall clock, in ticks
    rl,           \* zset api:ratelimit:tracking
    sem,          \* zset api:concurrent:tracking
    brk,          \* hash api:circuit:tracking: status, failures, openedAt
    shipments,    \* table shipments, by awb (exists = FALSE: no row)
    syncLogs,     \* table sync_logs: the rows, in insertion order
    wk,           \* per worker: position in syncSingleAwb and its locals
    issued,       \* history: upstream calls issued at each tick
    consecFails,  \* history: recordFailure increments since the last recordSuccess
    leaked,       \* history: requestIds whose holder crashed before release
    sweep,        \* the scheduler's passes: position and locals of enqueueSyncJobs
    queue,        \* trackingQueue: the jobs added, in order
    call,         \* a call of the SQL function calculate_next_sync and its result
    proc,         \* the worker's processor: one run per job of the queue
    syncBatches,  \* table sync_batches, by batch_id
    manual,       \* a run of enqueueSyncJobs started by a trigger other than the cron
    cfg,          \* the environment, CONFIG and the limiters built from it
    req,          \* POST /sync: the requests handled, the last body and its response
    client        \* the browser API client: CONFIG.maxConcurrent and its state

vars == <<now, rl, sem, brk, shipments, syncLogs, wk, issued, consecFails, leaked,
          sweep, queue, call, proc, syncBatches, manual, cfg, req, client>>

\* What the workers never touch, and what the scheduler and the SQL function
\* never touch.
jobVars == <<proc, syncBatches, manual, cfg, req, client>>
schedVars == <<sweep, queue, call, proc, syncBatches, manual, cfg, req, client>>
workerVars == <<rl, sem, brk, syncLogs, wk, issued, consecFails, leaked>>

\* enqueueSyncJobs and enqueuePrioritySync before they run.
IdleSweep == [pc |-> "idle", awbs |-> <<>>, priority |-> "idle"]
\* No run of the processor, no sync_batches row, no triggered run, and the
\* environment before CONFIG is read.
NoProc == <<>>
NoBatches == <<>>
NoRun == [pc |-> "idle", awbs |-> <<>>]
NaN == [nan |-> TRUE, n |-> 0]
NoCfg ==
    [env |-> [MAX_CONCURRENT_REQUESTS |-> <<>>, REQUESTS_PER_MINUTE |-> <<>>],
     loaded |-> FALSE, MAX_CONCURRENT_REQUESTS |-> NaN, REQUESTS_PER_MINUTE |-> NaN,
     built |-> FALSE, maxConcurrent |-> NaN, maxRequests |-> NaN]
\* POST /sync before any request: no body, no response.
NoBody == [isArray |-> FALSE, awbs |-> <<>>]
NoReq == [handled |-> 0, body |-> NoBody, status |-> 0]
\* The browser API client as the script leaves it when it is loaded.
NoClient ==
    [maxConcurrent |-> clientMaxConcurrent, activeRequests |-> 0,
     requestQueue |-> <<>>, isProcessingQueue |-> FALSE, wake |-> 0,
     requestTimestamps |-> <<>>, circuitOpen |-> FALSE, consecutiveFailures |-> 0,
     resetTimers |-> {}, requests |-> <<>>, fetches |-> <<>>]
\* No call of calculate_next_sync.
NoCall == [status |-> "null", failures |-> 0, at |-> 0, returned |-> FALSE, result |-> 0]

NoRid == <<>>
NullHash == <<>>
NoData == [currentStatusCode |-> "null", shipperName |-> "null"]
\* The payloads data[0] the upstream can return.
Payloads == [currentStatusCode : StatusCodes, shipperName : ShipperNames]
NoRet == [returned |-> FALSE, success |-> FALSE, changed |-> FALSE]
IdleLocals ==
    [pc |-> "idle", awb |-> "AWB1", t0 |-> 0, rid |-> NoRid, polled |-> FALSE,
     attempts |-> 0, fetchStart |-> 0, err |-> "none", apiData |-> NoData,
     newHash |-> NullHash, chk |-> "none", recorded |-> 0, ret |-> NoRet]

\* A shipments row: absent, or as "add to tracking" inserts it (never synced).
\* Every AWB of a job has a row: the scheduler selects AWBs from the table.
NoRow ==
    [exists |-> FALSE, status_code |-> "null", shipper_name |-> "null",
     data_hash |-> NullHash, last_synced_at |-> NullTime, next_sync_at |-> NullTime,
     sync_priority |-> 5, sync_failures |-> 0, last_error |-> "null",
     updated_at |-> NullTime]
NewRow == [NoRow EXCEPT !.exists = TRUE, !.next_sync_at = 0, !.updated_at = 0]
\* A row as an earlier successful sync of an out-for-delivery payload left
\* it, due again at tick 0.
SyncedRow ==
    [NewRow EXCEPT !.status_code = "OFD", !.shipper_name = "S0",
                   !.data_hash = <<"sha256", "OFD">>, !.last_synced_at = 0]
\* Synced rows as f failed attempts since left them, due again at tick 0.
FailedRow(f) ==
    [SyncedRow EXCEPT !.sync_failures = f, !.last_error = "upstream"]
\* The failure counts above 0 of the rows the workers start from: the
\* quarantine cap.
StoredFailures == {SYNC_FAILURES_CAP}

\* States of the breaker hash the workers can find when they start: never
\* written, closed and one failure short of the threshold, or just opened by
\* the failure that reached the threshold.
BreakerStates ==
    {[status |-> "", failures |-> 0, openedAt |-> 0],
     [status |-> "closed", failures |-> failureThreshold - 1, openedAt |-> 0],
     [status |-> "open", failures |-> failureThreshold, openedAt |-> 0]}

Init ==
    /\ now = 0
    /\ rl = {}
    /\ sem = {}
    /\ brk \in BreakerStates
    /\ consecFails = brk.failures
    /\ shipments \in [AWBS -> {NewRow, SyncedRow} \cup {FailedRow(f) : f \in StoredFailures}]
    /\ syncLogs = <<>>
    /\ wk = [w \in Fleet |-> IdleLocals]
    /\ issued = [t \in 0..MaxTime |-> 0]
    /\ leaked = {}
    /\ sweep = IdleSweep
    /\ queue = <<>>
    /\ call = NoCall
    /\ proc = NoProc
    /\ syncBatches = NoBatches
    /\ manual = NoRun
    /\ cfg = NoCfg
    /\ req = NoReq
    /\ client = NoClient

\* ------------------------------------------------------------ rate limiter
\* The Lua script of DistributedRateLimiter.acquire, run atomically by Redis:
\* prune, count, and add the member now .. '-' .. math.random() when under
\* the limit.
RateLimiterAcquire(z, t, rnd) ==
    LET pruned == ZREMRANGEBYSCORE(z, t - windowMs)
    IN  IF ZCARD(pruned) < maxRequests
        THEN [result |-> 1, zset |-> ZADD(pruned, t, <<t, rnd>>)]
        ELSE [result |-> 0, zset |-> pruned]

\* EXPIRE key ceil(window / 1000): the key goes once a whole window has passed
\* since the last successful acquire.
RateKeyExpired(z, t) ==
    z # {} /\ \A e \in z : t >= e.score + windowMs

\* --------------------------------------------------------------- semaphore
\* DistributedSemaphore.acquire with a pruning bound that is one off: a slot
\* exactly ttlMs old is kept.
SemaphoreAcquireKeepsOld(z, requestId, t) ==
    LET pruned == ZREMRANGEBYSCORE(z, t - ttlMs - 1)
    IN  IF ZCARD(pruned) < maxConcurrent
        THEN [result |-> 1, zset |-> ZADD(pruned, t, requestId)]
        ELSE [result |-> 0, zset |-> pruned]

\* The Lua script of DistributedSemaphore.acquire.
SemaphoreAcquire(z, requestId, t) ==
    LET pruned == ZREMRANGEBYSCORE(z, t - ttlMs)
    IN  IF ZCARD(pruned) < maxConcurrent
        THEN [result |-> 1, zset |-> ZADD(pruned, t, requestId)]
        ELSE [result |-> 0, zset |-> pruned]

\* A release that removes nothing.
SemaphoreReleaseNothing(z, requestId) == z

SemaphoreRelease(z, requestId) == ZREM(z, requestId)

\* ---------------------------------------------------------- circuit breaker
\* An isOpen that lets every call through, whatever it read.
IsOpenDecisionAlwaysPass(state, t) == "pass"

\* What isOpen decides from the hash it read at time t: "open" (return true),
\* "halfOpen" (call halfOpen(), then return false) or "pass" (return false).
IsOpenDecision(state, t) ==
    IF state.status = "" THEN "pass"
    ELSE IF state.status = "open"
         THEN IF t - state.openedAt > resetTimeout THEN "halfOpen" ELSE "open"
         ELSE "pass"

\* recordSuccess: one HSET of status and failures.
RecordSuccessState(state) == [state EXCEPT !.status = "closed", !.failures = 0]

\* recordFailure, first command: HINCRBY failures 1.
RecordFailureIncr(state) == [state EXCEPT !.failures = @ + 1]

\* recordFailure: whether the incremented counter makes it write status open.
ReachedThreshold(failures) == failures >= failureThreshold

\* recordFailure, second command: HSET status open, openedAt now.
RecordFailureOpen(state, t) == [state EXCEPT !.status = "open", !.openedAt = t]

\* halfOpen: HSET status half-open.
HalfOpenState(state) == [state EXCEPT !.status = "half-open"]

\* ----------------------------------------------------------------- storage
\* computeDataHash: the digest of the relevant fields of the payload.
computeDataHash(data) == <<"sha256", data.currentStatusCode>>

\* The unchanged branch's UPDATE with the last_error = NULL of the upsert.
UpdateUnchangedClearsError(row, t) ==
    IF row.exists
    THEN [row EXCEPT !.last_synced_at = t,
                     !.next_sync_at = calculate_next_sync(row.status_code, row.sync_failures, t),
                     !.sync_failures = 0,
                     !.last_error = "null",
                     !.updated_at = t]
    ELSE row

\* The unchanged branch's UPDATE without sync_failures = 0.
UpdateUnchangedKeepsFailures(row, t) ==
    IF row.exists
    THEN [row EXCEPT !.last_synced_at = t,
                     !.next_sync_at = calculate_next_sync(row.status_code, row.sync_failures, t),
                     !.updated_at = t]
    ELSE row

\* The UPDATE of the unchanged branch, and the trigger trg_shipments_updated
\* that stamps updated_at on every UPDATE of shipments.
UpdateUnchanged(row, t) ==
    IF row.exists
    THEN [row EXCEPT !.last_synced_at = t,
                     !.next_sync_at = calculate_next_sync(row.status_code, row.sync_failures, t),
                     !.sync_failures = 0,
                     !.updated_at = t]
    ELSE row

\* The INSERT ... ON CONFLICT (awb) DO UPDATE of the changed branch.
UpsertShipment(row, data, hash, t) ==
    [exists |-> TRUE, status_code |-> data.currentStatusCode,
     shipper_name |-> data.shipperName, data_hash |-> hash,
     last_synced_at |-> t,
     next_sync_at |-> calculate_next_sync(data.currentStatusCode, 0, t),
     sync_priority |-> row.sync_priority,
     sync_failures |-> 0, last_error |-> "null", updated_at |-> t]

\* The catch block's UPDATE without the LEAST(..., 10) cap.
UpdateFailureUncapped(row, message, t) ==
    IF row.exists
    THEN [row EXCEPT !.sync_failures = row.sync_failures + 1,
                     !.last_error = message,
                     !.next_sync_at =
                         calculate_next_sync(row.status_code, row.sync_failures + 1, t),
                     !.updated_at = t]
    ELSE row

\* The UPDATE of the catch block.
UpdateFailure(row, message, t) ==
    IF row.exists
    THEN [row EXCEPT !.sync_failures = Min(row.sync_failures + 1, SYNC_FAILURES_CAP),
                     !.last_error = message,
                     !.next_sync_at =
                         calculate_next_sync(row.status_code,
                                             Min(row.sync_failures + 1, SYNC_FAILURES_CAP), t),
                     !.updated_at = t]
    ELSE row

\* The catch block's row with the success flag of the other INSERT.
FailureLogRowAsSuccess(batch, awb, message) ==
    [batch_id |-> batch, awb |-> awb, success |-> TRUE, changed |-> "null",
     error_message |-> message]

\* The row the catch block inserts into sync_logs.
FailureLogRow(batch, awb, message) ==
    [batch_id |-> batch, awb |-> awb, success |-> FALSE, changed |-> "null",
     error_message |-> message]

\* The row the changed branch inserts into sync_logs; response_time_ms is an
\* INTEGER column and the statement fails when the value does not fit.
SuccessLogRow(batch, awb) ==
    [batch_id |-> batch, awb |-> awb, success |-> TRUE, changed |-> "true",
     error_message |-> "null"]
\* Whether a millisecond value, given in whole seconds, fits INTEGER.
FitsInteger(seconds) == seconds >= 0 /\ seconds <= INT4_MAX \div 1000

\* The calls of syncSingleAwb the runs of the processor make, in the order
\* of the jobs and of the AWBs in each job.
Calls == <<"w1", "w2", "w3">>

\* The number of AWBs in the jobs before job k.
RECURSIVE Offset(_)
Offset(k) == IF k <= 1 THEN 0 ELSE Offset(k - 1) + Len(proc[k - 1].awbs)

\* The call processBatch makes for the AWB at position p of job k.
CallOf(k, p) == Calls[Offset(k) + p]

\* The runs of the processor that make call w.
RunsOf(w) == {k \in DOMAIN proc : \E p \in 1..Len(proc[k].awbs) : CallOf(k, p) = w}

\* The batchId syncSingleAwb is called with: the job's, or a batch of its own
\* for a call that is followed without its job.
BatchOf(w) == IF RunsOf(w) = {} THEN w ELSE proc[CHOOSE k \in RunsOf(w) : TRUE].batchId

\* ------------------------------------------------------------------ worker
At(w, p) == wk[w].pc = p
Goto(w, rec) == wk' = [wk EXCEPT ![w] = rec]
\* An exception reaches the catch block of syncSingleAwb; the locals of the
\* try block are gone.
Throw(w, rec, kind) ==
    Goto(w, [rec EXCEPT !.pc = "rf_incr", !.err = kind, !.t0 = 0, !.rid = NoRid,
                        !.attempts = 0, !.polled = FALSE, !.apiData = NoData, !.newHash = NullHash])

\* processBatch calls syncSingleAwb(awb, batchId); the model follows one call
\* per worker, from "idle" to "done" (returned) or "crashed".
StartSync(w, awb) ==
    /\ UNCHANGED schedVars
    /\ At(w, "idle")
    /\ Goto(w, [IdleLocals EXCEPT !.pc = "isOpen", !.awb = awb])
    /\ UNCHANGED <<now, rl, sem, brk, shipments, syncLogs, issued, consecFails, leaked>>

\* The first lines of fetchTracking: requestId, and startTime of waitForSlot.
EnterFetchTracking(l, w, t) ==
    [l EXCEPT !.pc = "rate", !.t0 = t, !.rid = <<l.awb, t, w>>, !.polled = FALSE]

\* A call of fetchTracking(awb) on its own.
CallFetchTracking(w, awb) ==
    /\ UNCHANGED schedVars
    /\ At(w, "idle")
    /\ Goto(w, EnterFetchTracking([IdleLocals EXCEPT !.awb = awb], w, now))
    /\ UNCHANGED <<now, rl, sem, brk, shipments, syncLogs, issued, consecFails, leaked>>

\* circuitBreaker.isOpen(): HGETALL, then the decision on what was read.
\* A false result enters fetchTracking.
IsOpen(w) ==
    /\ UNCHANGED schedVars
    /\ At(w, "isOpen")
    /\ LET d == IsOpenDecision(brk, now)
           seen == IF brk.status = "open"
                   THEN (IF now - brk.openedAt > resetTimeout THEN "expired" ELSE "open")
                   ELSE IF brk.status = "half-open" THEN "half" ELSE "closed"
           l == [wk[w] EXCEPT !.chk = seen]
       IN  CASE d = "open"     -> Throw(w, l, "breaker")
             [] d = "halfOpen" -> Goto(w, [l EXCEPT !.pc = "halfOpen"])
             [] OTHER          -> Goto(w, EnterFetchTracking(l, w, now))
    /\ UNCHANGED <<now, rl, sem, brk, shipments, syncLogs, issued, consecFails, leaked>>

\* CircuitBreaker.halfOpen(): the HSET that follows the read of isOpen.
HalfOpen(w) ==
    /\ UNCHANGED schedVars
    /\ At(w, "halfOpen")
    /\ brk' = HalfOpenState(brk)
    /\ Goto(w, EnterFetchTracking(wk[w], w, now))
    /\ UNCHANGED <<now, rl, sem, shipments, syncLogs, issued, consecFails, leaked>>

\* One iteration of waitForSlot's loop that is still within maxWaitMs; after
\* a refusal the loop sleeps 100 ms, a small part of a tick.
RateTry(w) ==
    /\ UNCHANGED schedVars
    /\ At(w, "rate")
    /\ now - wk[w].t0 < rateWaitMs
    /\ \E rnd \in LuaRandom :
          LET r == RateLimiterAcquire(rl, now, rnd)
          IN  /\ rl' = r.zset
              /\ IF r.result = 1
                 THEN Goto(w, [wk[w] EXCEPT !.pc = "sem", !.attempts = 0, !.t0 = 0,
                                            !.polled = FALSE])
                 ELSE Goto(w, [wk[w] EXCEPT !.polled = TRUE])
    /\ UNCHANGED <<now, sem, brk, shipments, syncLogs, issued, consecFails, leaked>>

\* waitForSlot returns false; fetchTracking throws 'Rate limit timeout'.
RateTimeout(w) ==
    /\ UNCHANGED schedVars
    /\ At(w, "rate")
    /\ ~(now - wk[w].t0 < rateWaitMs)
    /\ Throw(w, wk[w], "quota")
    /\ UNCHANGED <<now, rl, sem, brk, shipments, syncLogs, issued, consecFails, leaked>>

\* One iteration of the semaphore loop; on success fetch() is called at once.
SemTry(w) ==
    /\ UNCHANGED schedVars
    /\ At(w, "sem")
    /\ wk[w].attempts < semAttempts
    /\ LET r == SemaphoreAcquire(sem, wk[w].rid, now)
       IN  /\ sem' = r.zset
           /\ IF r.result = 1
              THEN /\ Goto(w, [wk[w] EXCEPT !.pc = "fetch", !.fetchStart = now,
                                             !.attempts = 0, !.polled = FALSE])
                   /\ issued' = [issued EXCEPT ![now] = @ + 1]
              ELSE /\ Goto(w, [wk[w] EXCEPT !.attempts = @ + 1, !.polled = TRUE])
                   /\ UNCHANGED issued
    /\ UNCHANGED <<now, rl, brk, shipments, syncLogs, consecFails, leaked>>

\* The loop ends without a slot; fetchTracking throws 'Concurrency limit timeout'.
SemTimeout(w) ==
    /\ UNCHANGED schedVars
    /\ At(w, "sem")
    /\ ~(wk[w].attempts < semAttempts)
    /\ Throw(w, wk[w], "quota")
    /\ UNCHANGED <<now, rl, sem, brk, shipments, syncLogs, issued, consecFails, leaked>>

\* fetch() resolves with an ok response; the abort timer is cleared.
FetchOk(w) ==
    /\ UNCHANGED schedVars
    /\ At(w, "fetch")
    /\ Goto(w, [wk[w] EXCEPT !.pc = "body", !.fetchStart = 0])
    /\ UNCHANGED <<now, rl, sem, brk, shipments, syncLogs, issued, consecFails, leaked>>

\* fetch() rejects (transport error) or resolves with a non-ok status.
FetchFail(w) ==
    /\ UNCHANGED schedVars
    /\ At(w, "fetch")
    /\ Goto(w, [wk[w] EXCEPT !.pc = "release", !.err = "upstream", !.fetchStart = 0])
    /\ UNCHANGED <<now, rl, sem, brk, shipments, syncLogs, issued, consecFails, leaked>>

\* The abort timer fires after REQUEST_TIMEOUT; fetch() rejects.
FetchAbort(w) ==
    /\ UNCHANGED schedVars
    /\ At(w, "fetch")
    /\ now - wk[w].fetchStart >= REQUEST_TIMEOUT
    /\ Goto(w, [wk[w] EXCEPT !.pc = "release", !.err = "upstream", !.fetchStart = 0])
    /\ UNCHANGED <<now, rl, sem, brk, shipments, syncLogs, issued, consecFails, leaked>>

\* response.json() resolves with status 'Success' and data[0].
BodyValid(w, data) ==
    /\ UNCHANGED schedVars
    /\ At(w, "body")
    /\ Goto(w, [wk[w] EXCEPT !.pc = "recSuccess", !.apiData = data])
    /\ UNCHANGED <<now, rl, sem, brk, shipments, syncLogs, issued, consecFails, leaked>>

\* response.json() rejects, or the envelope is not 'Success' with data.
BodyInvalid(w) ==
    /\ UNCHANGED schedVars
    /\ At(w, "body")
    /\ Goto(w, [wk[w] EXCEPT !.pc = "release", !.err = "upstream"])
    /\ UNCHANGED <<now, rl, sem, brk, shipments, syncLogs, issued, consecFails, leaked>>

\* circuitBreaker.recordSuccess() at the end of fetchTracking's try block.
RecordSuccess(w) ==
    /\ UNCHANGED schedVars
    /\ At(w, "recSuccess")
    /\ brk' = RecordSuccessState(brk)
    /\ consecFails' = 0
    /\ Goto(w, [wk[w] EXCEPT !.pc = "release"])
    /\ UNCHANGED <<now, rl, sem, shipments, syncLogs, issued, leaked>>

\* The finally block of fetchTracking: concurrencyLimiter.release(requestId).
Release(w) ==
    /\ UNCHANGED schedVars
    /\ At(w, "release")
    /\ sem' = SemaphoreRelease(sem, wk[w].rid)
    /\ IF wk[w].err = "none"
       THEN Goto(w, [wk[w] EXCEPT !.pc = "select", !.rid = NoRid,
                                  !.newHash = computeDataHash(wk[w].apiData)])
       ELSE Goto(w, [wk[w] EXCEPT !.pc = "rf_incr", !.rid = NoRid])
    /\ UNCHANGED <<now, rl, brk, shipments, syncLogs, issued, consecFails, leaked>>

\* SELECT data_hash FROM shipments WHERE awb = $1, and the comparison with
\* the new digest.
SelectHash(w) ==
    /\ UNCHANGED schedVars
    /\ At(w, "select")
    /\ LET row == shipments[wk[w].awb]
       IN  IF row.exists /\ row.data_hash = wk[w].newHash
           THEN Goto(w, [wk[w] EXCEPT !.pc = "update", !.apiData = NoData,
                                      !.newHash = NullHash])
           ELSE Goto(w, [wk[w] EXCEPT !.pc = "upsert"])
    /\ UNCHANGED <<now, rl, sem, brk, shipments, syncLogs, issued, consecFails, leaked>>

\* Unchanged branch: the UPDATE, then return { success: true, changed: false }.
SkipUnchanged(w) ==
    /\ UNCHANGED schedVars
    /\ At(w, "update")
    /\ shipments' = [shipments EXCEPT ![wk[w].awb] = UpdateUnchanged(@, now)]
    /\ Goto(w, [wk[w] EXCEPT !.pc = "done",
                             !.ret = [returned |-> TRUE, success |-> TRUE,
                                      changed |-> FALSE]])
    /\ UNCHANGED <<now, rl, sem, brk, syncLogs, issued, consecFails, leaked>>

\* Changed branch: the upsert of the full record.
Upsert(w) ==
    /\ UNCHANGED schedVars
    /\ At(w, "upsert")
    /\ shipments' = [shipments EXCEPT
                        ![wk[w].awb] = UpsertShipment(@, wk[w].apiData, wk[w].newHash, now)]
    /\ Goto(w, [wk[w] EXCEPT !.pc = "log", !.apiData = NoData, !.newHash = NullHash])
    /\ UNCHANGED <<now, rl, sem, brk, syncLogs, issued, consecFails, leaked>>

\* Changed branch: INSERT INTO sync_logs with response_time_ms = Date.now(),
\* then return { success: true, changed: true }; a failed INSERT throws into
\* the catch block.
InsertSuccessLog(w) ==
    /\ UNCHANGED schedVars
    /\ At(w, "log")
    /\ IF FitsInteger(DateNowSeconds(now))
       THEN LET row == SuccessLogRow(BatchOf(w), wk[w].awb)
            IN  /\ syncLogs' = Append(syncLogs, row)
                /\ Goto(w, [wk[w] EXCEPT !.pc = "done",
                                         !.ret = [returned |-> TRUE, success |-> TRUE,
                                                  changed |-> TRUE]])
       ELSE /\ Throw(w, wk[w], "storage")
            /\ UNCHANGED syncLogs
    /\ UNCHANGED <<now, rl, sem, brk, shipments, issued, consecFails, leaked>>

\* catch: circuitBreaker.recordFailure(), the HINCRBY.
RecordFailure(w) ==
    /\ UNCHANGED schedVars
    /\ At(w, "rf_incr")
    /\ brk' = RecordFailureIncr(brk)
    /\ consecFails' = Min(consecFails + 1, failureThreshold)
    /\ IF ReachedThreshold(brk'.failures)
       THEN Goto(w, [wk[w] EXCEPT !.pc = "rf_set", !.recorded = @ + 1])
       ELSE Goto(w, [wk[w] EXCEPT !.pc = "c_update", !.recorded = @ + 1])
    /\ UNCHANGED <<now, rl, sem, shipments, syncLogs, issued, leaked>>

\* catch: circuitBreaker.recordFailure(), the HSET that opens the breaker.
RecordFailureSet(w) ==
    /\ UNCHANGED schedVars
    /\ At(w, "rf_set")
    /\ brk' = RecordFailureOpen(brk, now)
    /\ Goto(w, [wk[w] EXCEPT !.pc = "c_update"])
    /\ UNCHANGED <<now, rl, sem, shipments, syncLogs, issued, consecFails, leaked>>

\* catch: UPDATE shipments SET sync_failures, last_error, next_sync_at.
FailureUpdate(w) ==
    /\ UNCHANGED schedVars
    /\ At(w, "c_update")
    /\ shipments' = [shipments EXCEPT ![wk[w].awb] = UpdateFailure(@, wk[w].err, now)]
    /\ Goto(w, [wk[w] EXCEPT !.pc = "c_log"])
    /\ UNCHANGED <<now, rl, sem, brk, syncLogs, issued, consecFails, leaked>>

\* catch: INSERT INTO sync_logs, then return { success: false, changed: false }.
InsertFailureLog(w) ==
    /\ UNCHANGED schedVars
    /\ At(w, "c_log")
    /\ LET row == FailureLogRow(BatchOf(w), wk[w].awb, wk[w].err)
       IN  /\ syncLogs' = Append(syncLogs, row)
           /\ Goto(w, [wk[w] EXCEPT !.pc = "done",
                                    !.ret = [returned |-> TRUE, success |-> FALSE,
                                             changed |-> FALSE]])
    /\ UNCHANGED <<now, rl, sem, brk, shipments, issued, consecFails, leaked>>

\* The worker process dies while its call holds a semaphore slot: its locals
\* are lost, nothing is released.
Crash(w) ==
    /\ UNCHANGED schedVars
    /\ wk[w].pc \in {"fetch", "body", "recSuccess", "release"}
    /\ Goto(w, [IdleLocals EXCEPT !.pc = "crashed"])
    /\ leaked' = IF \E e \in sem : e.member = wk[w].rid
                 THEN leaked \cup {wk[w].rid} ELSE leaked
    /\ UNCHANGED <<now, rl, sem, brk, shipments, syncLogs, issued, consecFails>>

\* ---------------------------------------------------------------- monitors
\* rateLimiter.getUsage() of the status endpoint: prune, then count.
GetUsage ==
    /\ UNCHANGED schedVars
    /\ rl' = ZREMRANGEBYSCORE(rl, now - windowMs)
    /\ UNCHANGED <<now, sem, brk, shipments, syncLogs, wk, issued, consecFails, leaked>>

\* concurrencyLimiter.getCurrent() of the status endpoint: prune, then count.
GetCurrent ==
    /\ UNCHANGED schedVars
    /\ sem' = ZREMRANGEBYSCORE(sem, now - ttlMs)
    /\ UNCHANGED <<now, rl, brk, shipments, syncLogs, wk, issued, consecFails, leaked>>

\* -------------------------------------------------------------------- time
\* The clock advances while a call is still to run or running.  The polling
\* loops run many times per tick: a call waiting for a rate-limit slot or a
\* semaphore slot has been refused in this tick.  A pending abort timer fires
\* before the clock passes it; the rate limiter's key expires; calls older
\* than a window leave the history.
Tick(calls) ==
    /\ UNCHANGED schedVars
    /\ now < MaxTime
    /\ \E w \in calls : wk[w].pc \notin {"done", "crashed"}
    /\ \A w \in Fleet : wk[w].pc \in {"rate", "sem"} => wk[w].polled
    /\ \A w \in Fleet : At(w, "fetch") => now - wk[w].fetchStart < REQUEST_TIMEOUT
    /\ now' = now + 1
    /\ rl' = IF RateKeyExpired(rl, now + 1) THEN {} ELSE rl
    /\ issued' = [t \in 0..MaxTime |-> IF t > now + 1 - windowMs THEN issued[t] ELSE 0]
    /\ wk' = [w \in Fleet |-> [wk[w] EXCEPT !.polled = FALSE]]
    /\ UNCHANGED <<sem, brk, shipments, syncLogs, consecFails, leaked>>

Next ==
    \/ \E w \in Workers, awb \in AWBS : StartSync(w, awb)
    \/ \E w \in Workers : IsOpen(w)
    \/ \E w \in Workers : HalfOpen(w)
    \/ \E w \in Workers : RateTry(w)
    \/ \E w \in Workers : RateTimeout(w)
    \/ \E w \in Workers : SemTry(w)
    \/ \E w \in Workers : SemTimeout(w)
    \/ \E w \in Workers : FetchOk(w)
    \/ \E w \in Workers : FetchFail(w)
    \/ \E w \in Workers : FetchAbort(w)
    \/ \E w \in Workers, data \in Payloads : BodyValid(w, data)
    \/ \E w \in Workers : BodyInvalid(w)
    \/ \E w \in Workers : RecordSuccess(w)
    \/ \E w \in Workers : Release(w)
    \/ \E w \in Workers : SelectHash(w)
    \/ \E w \in Workers : SkipUnchanged(w)
    \/ \E w \in Workers : Upsert(w)
    \/ \E w \in Workers : InsertSuccessLog(w)
    \/ \E w \in Workers : RecordFailure(w)
    \/ \E w \in Workers : RecordFailureSet(w)
    \/ \E w \in Workers : FailureUpdate(w)
    \/ \E w \in Workers : InsertFailureLog(w)
    \/ \E w \in Workers : Crash(w)
    \/ GetUsage
    \/ GetCurrent
    \/ Tick(Workers)

Spec == Init /\ [][Next]_vars

\* The fleet calling fetchTracking: every call starts in fetchTracking and
\* stops where fetchTracking returns or throws.
NextFleet ==
    \/ \E w \in Fleet, awb \in AWBS : CallFetchTracking(w, awb)
    \/ \E w \in Fleet : RateTry(w)
    \/ \E w \in Fleet : RateTimeout(w)
    \/ \E w \in Fleet : SemTry(w)
    \/ \E w \in Fleet : SemTimeout(w)
    \/ \E w \in Fleet : FetchOk(w)
    \/ \E w \in Fleet : FetchFail(w)
    \/ \E w \in Fleet : FetchAbort(w)
    \/ \E w \in Fleet, data \in Payloads : BodyValid(w, data)
    \/ \E w \in Fleet : BodyInvalid(w)
    \/ \E w \in Fleet : RecordSuccess(w)
    \/ \E w \in Fleet : Release(w)
    \/ \E w \in Fleet : Crash(w)
    \/ GetUsage
    \/ GetCurrent
    \/ Tick(Fleet)

InitFleet ==
    /\ Init
    /\ brk.status = ""
    /\ shipments = [a \in AWBS |-> SyncedRow]

SpecFleet == InitFleet /\ [][NextFleet]_vars

\* The calls of syncSingleAwb for a shipment that was added to tracking and
\* never synced: the first successful call takes the changed branch.
InitFirstSync ==
    /\ Init
    /\ shipments = [a \in AWBS |-> NewRow]

SpecFirstSync == InitFirstSync /\ [][Next]_vars

\* --------------------------------------------------------------- scheduler
\* The table the scheduler reads.
AllAwbs == {"AWB1", "AWB2", "AWB3", "AWB4"}

\* The status codes, priorities, failure counts and next_sync_at values of
\* the rows the scheduler finds; the scheduler runs at NOW() = SweepTime.
SweepStatusCodes == <<"OFD", "DDL">>
SweepPriorities == <<1, 5>>
SweepFailures == <<0, 3, SYNC_FAILURES_CAP>>
SweepTime == 1

\* The i-th row of the product of those values (next_sync_at in 0..2).
SweepRow(i) ==
    [SyncedRow EXCEPT !.status_code = SweepStatusCodes[(i % 2) + 1],
                      !.next_sync_at = (i \div 2) % 3,
                      !.sync_priority = SweepPriorities[((i \div 6) % 2) + 1],
                      !.sync_failures = SweepFailures[((i \div 12) % 3) + 1]]
SweepRowCount == Len(SweepStatusCodes) * 3 * Len(SweepPriorities) * Len(SweepFailures)

\* WHERE next_sync_at <= NOW() AND sync_failures < 10 (a comparison with NULL
\* is not true).
IsDueIgnoringFailures(row, t) ==
    /\ row.exists
    /\ row.next_sync_at # NullTime
    /\ row.next_sync_at <= t

IsDue(row, t) ==
    /\ row.exists
    /\ row.next_sync_at # NullTime
    /\ row.next_sync_at <= t
    /\ row.sync_failures < 10

\* ORDER BY sync_priority ASC, next_sync_at ASC, sync_failures ASC: row r1 may
\* come before row r2.
OrderByLE(r1, r2) ==
    \/ r1.sync_priority < r2.sync_priority
    \/ /\ r1.sync_priority = r2.sync_priority
       /\ \/ r1.next_sync_at < r2.next_sync_at
          \/ /\ r1.next_sync_at = r2.next_sync_at
             /\ r1.sync_failures <= r2.sync_failures

\* The results a SELECT awb .. ORDER BY .. can return for the matching AWBs:
\* the least row first, rows that tie in any order.
RECURSIVE OrderBy(_, _)
OrderBy(table, matching) ==
    IF matching = {} THEN {<<>>}
    ELSE UNION {{<<m>> \o rest : rest \in OrderBy(table, matching \ {m})} :
                m \in {a \in matching :
                         \A b \in matching : OrderByLE(table[a], table[b])}}

\* The results of a SELECT with no ORDER BY: the matching AWBs in any order.
RECURSIVE AnyOrder(_)
AnyOrder(matching) ==
    IF matching = {} THEN {<<>>}
    ELSE UNION {{<<m>> \o rest : rest \in AnyOrder(matching \ {m})} : m \in matching}

\* LIMIT n.
Limit(rows, n) == SubSeq(rows, 1, Min(n, Len(rows)))

\* getAwbsToSync(limit) at NOW() = t: the results the query can return.
getAwbsToSync(table, t, limit) ==
    {Limit(rows, limit) :
        rows \in OrderBy(table, {a \in DOMAIN table : IsDue(table[a], t)})}

\* The query of enqueuePrioritySync at NOW() = t.
PriorityQuery(table, t) ==
    {Limit(rows, PRIORITY_LIMIT) :
        rows \in AnyOrder({a \in DOMAIN table :
                             /\ table[a].exists
                             /\ table[a].status_code \in {"OFD", "UDD", "DDS"}
                             /\ table[a].next_sync_at # NullTime
                             /\ table[a].next_sync_at <= t})}

\* Array.prototype.slice with an end past the array: a slice that also takes
\* the element at end.
sliceInclusive(arr, start, end) == SubSeq(arr, start + 1, Min(end + 1, Len(arr)))

\* Array.prototype.slice(start, end): 0-based, end exclusive, clamped.
slice(arr, start, end) == SubSeq(arr, start + 1, Min(end, Len(arr)))

\* for (let i = 0; i < awbs.length; i += BATCH_SIZE) batches.push(awbs.slice(i, i + BATCH_SIZE))
RECURSIVE batches(_, _)
batches(awbs, i) ==
    IF i < Len(awbs)
    THEN <<slice(awbs, i, i + BATCH_SIZE)>> \o batches(awbs, i + BATCH_SIZE)
    ELSE <<>>

\* batches.map((batch, index) => ({name, data, opts})).
jobs(bs, batchId) ==
    [k \in 1..Len(bs) |->
        [name |-> <<"sync-batch", batchId, k - 1>>,
         type |-> "batch",
         awbs |-> bs[k],
         batchId |-> batchId,
         priority |-> 5,
         delay |-> (k - 1) * 1000]]

\* enqueueSyncJobs up to the answer of getAwbsToSync(10000).
GetAwbsToSync ==
    /\ sweep.pc = "idle"
    /\ \E awbs \in getAwbsToSync(shipments, now, SWEEP_LIMIT) :
          sweep' = [sweep EXCEPT !.pc = "selected", !.awbs = awbs]
    /\ UNCHANGED <<now, shipments, queue, call>>
    /\ UNCHANGED jobVars
    /\ UNCHANGED workerVars

\* enqueueSyncJobs: if (awbs.length === 0) return.
NoAwbsToSync ==
    /\ sweep.pc = "selected"
    /\ Len(sweep.awbs) = 0
    /\ sweep' = [sweep EXCEPT !.pc = "done"]
    /\ UNCHANGED <<now, shipments, queue, call>>
    /\ UNCHANGED jobVars
    /\ UNCHANGED workerVars

\* enqueueSyncJobs: split into batches and trackingQueue.addBulk(jobs).
AddBulk ==
    /\ sweep.pc = "selected"
    /\ Len(sweep.awbs) > 0
    /\ queue' = queue \o jobs(batches(sweep.awbs, 0), "uuid-sweep")
    /\ sweep' = [sweep EXCEPT !.pc = "done"]
    /\ UNCHANGED <<now, shipments, call>>
    /\ UNCHANGED jobVars
    /\ UNCHANGED workerVars

\* enqueuePrioritySync: the query, and one job when it returns rows.
EnqueuePrioritySync ==
    /\ sweep.priority = "idle"
    /\ \E awbs \in PriorityQuery(shipments, now) :
          queue' = IF Len(awbs) > 0
                   THEN Append(queue, [name |-> <<"priority-sync">>,
                                       type |-> "priority",
                                       awbs |-> awbs,
                                       batchId |-> "uuid-priority",
                                       priority |-> 1,
                                       delay |-> 0])
                   ELSE queue
    /\ sweep' = [sweep EXCEPT !.priority = "done"]
    /\ UNCHANGED <<now, shipments, call>>
    /\ UNCHANGED jobVars
    /\ UNCHANGED workerVars

NextSched ==
    \/ GetAwbsToSync
    \/ NoAwbsToSync
    \/ AddBulk
    \/ EnqueuePrioritySync

\* The scheduler starts on a table of rows left by earlier syncs. AWBs are
\* interchangeable, so tables that differ only by renaming AWBs are drawn once.
InitSched ==
    /\ now = SweepTime
    /\ rl = {}
    /\ sem = {}
    /\ brk \in BreakerStates
    /\ brk.status = ""
    /\ consecFails = brk.failures
    /\ \E i1 \in 0..(SweepRowCount - 1) :
         \E i2 \in i1..(SweepRowCount - 1) :
           \E i3 \in i2..(SweepRowCount - 1) :
             \E i4 \in i3..(SweepRowCount - 1) :
               shipments = [a \in AllAwbs |->
                              CASE a = "AWB1" -> SweepRow(i1)
                                [] a = "AWB2" -> SweepRow(i2)
                                [] a = "AWB3" -> SweepRow(i3)
                                [] OTHER -> SweepRow(i4)]
    /\ syncLogs = <<>>
    /\ wk = [w \in Fleet |-> IdleLocals]
    /\ issued = [t \in 0..MaxTime |-> 0]
    /\ leaked = {}
    /\ sweep = IdleSweep
    /\ queue = <<>>
    /\ call = NoCall
    /\ proc = NoProc
    /\ syncBatches = NoBatches
    /\ manual = NoRun
    /\ cfg = NoCfg
    /\ req = NoReq
    /\ client = NoClient

SpecSched == InitSched /\ [][NextSched]_vars

\* ---------------------------------------------- calls of calculate_next_sync
\* The status codes the function's CASE names, one it does not (RTD) and NULL.
AllStatusCodes == {"DDL", "RTO", "CAN", "OFD", "DDS", "UDD", "RTD", "null"}

\* The failure counts a row can hold: 0 .. the worker's cap.
FailureCounts == 0..SYNC_FAILURES_CAP

\* The values of NOW() the function is called at.
CallTimes == {0, 1}

\* SELECT calculate_next_sync(status, failures) at NOW() = call.at.
CalculateNextSync ==
    /\ ~call.returned
    /\ call' = [call EXCEPT !.returned = TRUE,
                            !.result = calculate_next_sync(call.status, call.failures, call.at)]
    /\ UNCHANGED <<now, shipments, sweep, queue>>
    /\ UNCHANGED jobVars
    /\ UNCHANGED workerVars

NextSql == CalculateNextSync

InitSql ==
    /\ now = 0
    /\ rl = {}
    /\ sem = {}
    /\ brk \in BreakerStates
    /\ brk.status = ""
    /\ consecFails = brk.failures
    /\ shipments = [a \in AWBS |-> NewRow]
    /\ syncLogs = <<>>
    /\ wk = [w \in Fleet |-> IdleLocals]
    /\ issued = [t \in 0..MaxTime |-> 0]
    /\ leaked = {}
    /\ sweep = IdleSweep
    /\ queue = <<>>
    /\ proc = NoProc
    /\ syncBatches = NoBatches
    /\ manual = NoRun
    /\ cfg = NoCfg
    /\ req = NoReq
    /\ client = NoClient
    /\ call \in [status : AllStatusCodes, failures : FailureCounts, at : CallTimes,
                  returned : {FALSE}, result : {0}]

SpecSql == InitSql /\ [][NextSql]_vars

\* ---------------------------------------------------------------- triggers
\* triggerHourlySync (POST /trigger-sync) or the start-up timer calls
\* enqueueSyncJobs: the run up to the answer of getAwbsToSync(10000).
TriggerGetAwbsToSync ==
    /\ manual.pc = "idle"
    /\ \E awbs \in getAwbsToSync(shipments, now, SWEEP_LIMIT) :
          manual' = [manual EXCEPT !.pc = "selected", !.awbs = awbs]
    /\ UNCHANGED <<now, shipments, sweep, queue, call, proc, syncBatches, cfg, req, client>>
    /\ UNCHANGED workerVars

\* The triggered run: if (awbs.length === 0) return.
TriggerNoAwbsToSync ==
    /\ manual.pc = "selected"
    /\ Len(manual.awbs) = 0
    /\ manual' = [manual EXCEPT !.pc = "done"]
    /\ UNCHANGED <<now, shipments, sweep, queue, call, proc, syncBatches, cfg, req, client>>
    /\ UNCHANGED workerVars

\* The triggered run: split into batches and trackingQueue.addBulk(jobs).
TriggerAddBulk ==
    /\ manual.pc = "selected"
    /\ Len(manual.awbs) > 0
    /\ queue' = queue \o jobs(batches(manual.awbs, 0), "uuid-trigger")
    /\ manual' = [manual EXCEPT !.pc = "done"]
    /\ UNCHANGED <<now, shipments, sweep, call, proc, syncBatches, cfg, req, client>>
    /\ UNCHANGED workerVars

\* The hourly cron's run of enqueueSyncJobs and a triggered run.
NextTrig ==
    \/ GetAwbsToSync
    \/ NoAwbsToSync
    \/ AddBulk
    \/ TriggerGetAwbsToSync
    \/ TriggerNoAwbsToSync
    \/ TriggerAddBulk

\* The rows of the tables the triggers find: out for delivery or delivered,
\* due or not, never failed.
TriggerRowCount == Len(SweepStatusCodes) * 3

InitTrig ==
    /\ now = SweepTime
    /\ rl = {}
    /\ sem = {}
    /\ brk \in BreakerStates
    /\ brk.status = ""
    /\ consecFails = brk.failures
    /\ \E i1 \in 0..(TriggerRowCount - 1) :
         \E i2 \in i1..(TriggerRowCount - 1) :
           \E i3 \in i2..(TriggerRowCount - 1) :
             \E i4 \in i3..(TriggerRowCount - 1) :
               shipments = [a \in AllAwbs |->
                              CASE a = "AWB1" -> SweepRow(i1)
                                [] a = "AWB2" -> SweepRow(i2)
                                [] a = "AWB3" -> SweepRow(i3)
                                [] OTHER -> SweepRow(i4)]
    /\ syncLogs = <<>>
    /\ wk = [w \in Fleet |-> IdleLocals]
    /\ issued = [t \in 0..MaxTime |-> 0]
    /\ leaked = {}
    /\ sweep = IdleSweep
    /\ queue = <<>>
    /\ call = NoCall
    /\ proc = NoProc
    /\ syncBatches = NoBatches
    /\ manual = NoRun
    /\ cfg = NoCfg
    /\ req = NoReq
    /\ client = NoClient

SpecTrig == InitTrig /\ [][NextTrig]_vars

\* -------------------------------------------------------- worker processor
\* The AWBs a full sweep selected, in order, and the jobs it added.
SweptAwbs == <<"AWB1", "AWB2", "AWB3">>
SweepJobs == jobs(batches(SweptAwbs, 0), "uuid-sweep")

\* results of processBatch before the loop.
NoResults == [processed |-> 0, succeeded |-> 0, failed |-> 0, skipped |-> 0]

\* The processor's run for a job that waits in the queue.
WaitingRun(job) ==
    [pc |-> "waiting", awbs |-> job.awbs, batchId |-> job.batchId, started |-> 0,
     results |-> NoResults]

\* No sync_batches row for a batch_id.
NoBatchRow ==
    [exists |-> FALSE, total_awbs |-> 0, status |-> "null", processed |-> 0,
     succeeded |-> 0, failed |-> 0, skipped |-> 0]

\* INSERT INTO sync_batches (batch_id, total_awbs, status, started_at) ...
\* ON CONFLICT (batch_id) DO UPDATE SET status = 'running', started_at = NOW().
InsertBatch(row, total) ==
    IF row.exists
    THEN [row EXCEPT !.status = "running"]
    ELSE [NoBatchRow EXCEPT !.exists = TRUE, !.total_awbs = total, !.status = "running"]

\* UPDATE sync_batches SET status = 'completed', processed, succeeded,
\* failed, skipped WHERE batch_id = $1.
UpdateCompleted(row, results) ==
    IF row.exists
    THEN [row EXCEPT !.status = "completed", !.processed = results.processed,
                     !.succeeded = results.succeeded, !.failed = results.failed,
                     !.skipped = results.skipped]
    ELSE row

\* UPDATE sync_batches SET status = 'failed' WHERE batch_id = $1.
UpdateFailed(row) == IF row.exists THEN [row EXCEPT !.status = "failed"] ELSE row

\* processBatch that does not await the call it made.
CanStartNextWithoutAwait(run) == run.pc \in {"loop", "await"}

\* processBatch is at the head of its loop: the call of the previous
\* iteration, if any, was awaited.
CanStartNext(run) == run.pc = "loop"

\* The worker takes job k: the batch record is created.  The jobs of a sweep
\* are followed on a worker with one free slot: job k of the sweep is delayed
\* by k seconds and is taken when job k - 1 has ended (syncs that overlap are
\* followed in Spec).
JobStart(k) ==
    /\ proc[k].pc = "waiting"
    /\ IF k = 1 THEN TRUE ELSE proc[k - 1].pc \in {"returned", "failed"}
    /\ syncBatches' = [syncBatches EXCEPT
                          ![proc[k].batchId] = InsertBatch(@, Len(proc[k].awbs))]
    /\ proc' = [proc EXCEPT ![k].pc = "loop"]
    /\ UNCHANGED <<now, shipments, sweep, queue, call, manual, cfg, req, client>>
    /\ UNCHANGED workerVars

\* processBatch: the next iteration calls syncSingleAwb(awb, batchId).
StartCall(k) ==
    /\ CanStartNext(proc[k])
    /\ proc[k].started < Len(proc[k].awbs)
    /\ LET w == CallOf(k, proc[k].started + 1)
       IN  wk' = [wk EXCEPT ![w] = [IdleLocals EXCEPT
                                       !.pc = "isOpen",
                                       !.awb = proc[k].awbs[proc[k].started + 1]]]
    /\ proc' = [proc EXCEPT ![k].pc = "await", ![k].started = @ + 1]
    /\ UNCHANGED <<now, rl, sem, brk, shipments, syncLogs, issued, consecFails, leaked>>
    /\ UNCHANGED <<sweep, queue, call, syncBatches, manual, cfg, req, client>>

\* processBatch: the awaited call returned; the counters are updated.
CallReturned(k) ==
    /\ proc[k].pc = "await"
    /\ LET w == CallOf(k, proc[k].results.processed + 1)
           r == proc[k].results
       IN  /\ wk[w].pc = "done"
           /\ wk[w].ret.returned
           /\ proc' = [proc EXCEPT
                 ![k].pc = "loop",
                 ![k].results =
                     [processed |-> r.processed + 1,
                      succeeded |-> r.succeeded + (IF wk[w].ret.success THEN 1 ELSE 0),
                      failed |-> r.failed + (IF wk[w].ret.success THEN 0 ELSE 1),
                      skipped |-> r.skipped + (IF wk[w].ret.success /\ ~wk[w].ret.changed
                                               THEN 1 ELSE 0)]]
    /\ UNCHANGED <<now, shipments, sweep, queue, call, syncBatches, manual, cfg, req, client>>
    /\ UNCHANGED workerVars

\* processBatch: the awaited call threw; processBatch rejects into the
\* processor's catch block.
CallThrew(k) ==
    /\ proc[k].pc = "await"
    /\ wk[CallOf(k, proc[k].results.processed + 1)].pc = "thrown"
    /\ proc' = [proc EXCEPT ![k].pc = "catch"]
    /\ UNCHANGED <<now, shipments, sweep, queue, call, syncBatches, manual, cfg, req, client>>
    /\ UNCHANGED workerVars

\* The processor after processBatch returned: the batch record is completed
\* and the job returns.
BatchCompleted(k) ==
    /\ proc[k].pc = "loop"
    /\ proc[k].started = Len(proc[k].awbs)
    /\ syncBatches' = [syncBatches EXCEPT
                          ![proc[k].batchId] = UpdateCompleted(@, proc[k].results)]
    /\ proc' = [proc EXCEPT ![k].pc = "returned"]
    /\ UNCHANGED <<now, shipments, sweep, queue, call, manual, cfg, req, client>>
    /\ UNCHANGED workerVars

\* The processor's catch block: the batch record is marked failed and the
\* error is rethrown to the queue.
BatchFailed(k) ==
    /\ proc[k].pc = "catch"
    /\ syncBatches' = [syncBatches EXCEPT ![proc[k].batchId] = UpdateFailed(@)]
    /\ proc' = [proc EXCEPT ![k].pc = "failed"]
    /\ UNCHANGED <<now, shipments, sweep, queue, call, manual, cfg, req, client>>
    /\ UNCHANGED workerVars

\* The database rejects the upsert of the changed branch: the error is
\* thrown inside the try block of syncSingleAwb.
UpsertFails(w) ==
    /\ UNCHANGED schedVars
    /\ At(w, "upsert")
    /\ Throw(w, wk[w], "storage")
    /\ UNCHANGED <<now, rl, sem, brk, shipments, syncLogs, issued, consecFails, leaked>>

\* The database rejects the UPDATE of the catch block: syncSingleAwb rejects.
FailureUpdateFails(w) ==
    /\ UNCHANGED schedVars
    /\ At(w, "c_update")
    /\ Goto(w, [wk[w] EXCEPT !.pc = "thrown"])
    /\ UNCHANGED <<now, rl, sem, brk, shipments, syncLogs, issued, consecFails, leaked>>

NextJob ==
    \/ \E k \in DOMAIN proc : JobStart(k)
    \/ \E k \in DOMAIN proc : StartCall(k)
    \/ \E k \in DOMAIN proc : CallReturned(k)
    \/ \E k \in DOMAIN proc : CallThrew(k)
    \/ \E k \in DOMAIN proc : BatchCompleted(k)
    \/ \E k \in DOMAIN proc : BatchFailed(k)
    \/ \E w \in Fleet : IsOpen(w)
    \/ \E w \in Fleet : HalfOpen(w)
    \/ \E w \in Fleet : RateTry(w)
    \/ \E w \in Fleet : RateTimeout(w)
    \/ \E w \in Fleet : SemTry(w)
    \/ \E w \in Fleet : SemTimeout(w)
    \/ \E w \in Fleet : FetchOk(w)
    \/ \E w \in Fleet : FetchFail(w)
    \/ \E w \in Fleet : FetchAbort(w)
    \/ \E w \in Fleet, data \in Payloads : BodyValid(w, data)
    \/ \E w \in Fleet : BodyInvalid(w)
    \/ \E w \in Fleet : RecordSuccess(w)
    \/ \E w \in Fleet : Release(w)
    \/ \E w \in Fleet : SelectHash(w)
    \/ \E w \in Fleet : SkipUnchanged(w)
    \/ \E w \in Fleet : Upsert(w)
    \/ \E w \in Fleet : UpsertFails(w)
    \/ \E w \in Fleet : InsertSuccessLog(w)
    \/ \E w \in Fleet : RecordFailure(w)
    \/ \E w \in Fleet : RecordFailureSet(w)
    \/ \E w \in Fleet : FailureUpdate(w)
    \/ \E w \in Fleet : FailureUpdateFails(w)
    \/ \E w \in Fleet : InsertFailureLog(w)
    \/ Tick(Fleet)

\* A semaphore slot taken at tick 0 by a call of another worker process.
ForeignSlot == [score |-> 0, member |-> <<"AWB0", 0, "w0">>]

\* The worker finds the jobs of a full sweep in the queue; the shipments they
\* name are due, all never synced or all synced before; another process may
\* hold the semaphore's slot.
InitJob ==
    /\ now = 0
    /\ rl = {}
    /\ sem \in {{}, {ForeignSlot}}
    /\ brk \in BreakerStates
    /\ consecFails = brk.failures
    /\ \E row \in {NewRow, SyncedRow} :
          shipments = [a \in {SweptAwbs[i] : i \in 1..Len(SweptAwbs)} |-> row]
    /\ syncLogs = <<>>
    /\ wk = [w \in Fleet |-> IdleLocals]
    /\ issued = [t \in 0..MaxTime |-> 0]
    /\ leaked = {}
    /\ sweep = [IdleSweep EXCEPT !.pc = "done", !.awbs = SweptAwbs]
    /\ queue = SweepJobs
    /\ call = NoCall
    /\ proc = [k \in 1..Len(SweepJobs) |-> WaitingRun(SweepJobs[k])]
    /\ syncBatches = [b \in {"uuid-sweep"} |-> NoBatchRow]
    /\ manual = NoRun
    /\ cfg = NoCfg
    /\ req = NoReq
    /\ client = NoClient

SpecJob == InitJob /\ [][NextJob]_vars

\* ------------------------------------------------------------------ CONFIG
\* The values an environment variable can hold, as its characters; <<>> is
\* an unset (or empty) variable.
EnvValues == {<<>>, <<"5">>, <<"2", "0">>, <<"2", "1">>, <<"6", "0">>, <<"6", "1">>, <<"x">>}

Digits == {"0", "1", "2", "3", "4", "5", "6", "7", "8", "9"}
DigitValue(c) ==
    CASE c = "0" -> 0 [] c = "1" -> 1 [] c = "2" -> 2 [] c = "3" -> 3 [] c = "4" -> 4
      [] c = "5" -> 5 [] c = "6" -> 6 [] c = "7" -> 7 [] c = "8" -> 8 [] OTHER -> 9

\* parseInt(str): the leading decimal digits of str, NaN when there are none.
RECURSIVE ParseDigits(_, _, _)
ParseDigits(str, k, acc) ==
    IF k <= Len(str) /\ str[k] \in Digits
    THEN ParseDigits(str, k + 1, acc * 10 + DigitValue(str[k]))
    ELSE acc
parseInt(str) ==
    IF Len(str) > 0 /\ str[1] \in Digits
    THEN [nan |-> FALSE, n |-> ParseDigits(str, 1, 0)]
    ELSE NaN

\* parseInt(process.env.X || fallback).
EnvInt(value, fallback) == parseInt(IF Len(value) > 0 THEN value ELSE fallback)

\* config/index.ts is loaded: CONFIG.MAX_CONCURRENT_REQUESTS and
\* CONFIG.REQUESTS_PER_MINUTE are read from the environment.
LoadConfig ==
    /\ ~cfg.loaded
    /\ cfg' = [cfg EXCEPT
                 !.loaded = TRUE,
                 !.MAX_CONCURRENT_REQUESTS =
                     EnvInt(cfg.env.MAX_CONCURRENT_REQUESTS, <<"2", "0">>),
                 !.REQUESTS_PER_MINUTE =
                     EnvInt(cfg.env.REQUESTS_PER_MINUTE, <<"6", "0">>)]
    /\ UNCHANGED <<now, shipments, sweep, queue, call, proc, syncBatches, manual, req, client>>
    /\ UNCHANGED workerVars

\* tracking-queue.ts is loaded: rateLimiter and concurrencyLimiter are built
\* from CONFIG.
BuildLimiters ==
    /\ cfg.loaded
    /\ ~cfg.built
    /\ cfg' = [cfg EXCEPT !.built = TRUE,
                          !.maxRequests = cfg.REQUESTS_PER_MINUTE,
                          !.maxConcurrent = cfg.MAX_CONCURRENT_REQUESTS]
    /\ UNCHANGED <<now, shipments, sweep, queue, call, proc, syncBatches, manual, req, client>>
    /\ UNCHANGED workerVars

NextConfig ==
    \/ LoadConfig
    \/ BuildLimiters

InitConfig ==
    /\ now = 0
    /\ rl = {}
    /\ sem = {}
    /\ brk \in BreakerStates
    /\ brk.status = ""
    /\ consecFails = brk.failures
    /\ shipments = [a \in AWBS |-> NewRow]
    /\ syncLogs = <<>>
    /\ wk = [w \in Fleet |-> IdleLocals]
    /\ issued = [t \in 0..MaxTime |-> 0]
    /\ leaked = {}
    /\ sweep = IdleSweep
    /\ queue = <<>>
    /\ call = NoCall
    /\ proc = NoProc
    /\ syncBatches = NoBatches
    /\ manual = NoRun
    /\ req = NoReq
    /\ client = NoClient
    /\ \E c \in EnvValues, r \in EnvValues :
          cfg = [NoCfg EXCEPT !.env = [MAX_CONCURRENT_REQUESTS |-> c,
                                       REQUESTS_PER_MINUTE |-> r]]

SpecConfig == InitConfig /\ [][NextConfig]_vars

\* --------------------------------------------------------------- POST /sync
\* An array of n AWBs (an array may name an AWB more than once).
AwbList(n) == [i \in 1..n |-> SweptAwbs[((i - 1) % Len(SweptAwbs)) + 1]]

\* The values req.body.awbs can have: an array of 0 .. 21 AWBs, a string
\* (it has a length and is not an array), or undefined.
SyncBodies ==
    {[isArray |-> TRUE, awbs |-> AwbList(n)] : n \in 0..(MAX_SYNC_AWBS + 1)}
        \cup {[isArray |-> FALSE, awbs |-> <<"AWB1">>], NoBody}

\* A validation that forgets the upper limit.
SyncBodyRejectedNoUpperLimit(body) ==
    ~body.isArray \/ Len(body.awbs) = 0

\* !Array.isArray(awbs) || awbs.length === 0 || awbs.length > 20
SyncBodyRejected(body) ==
    ~body.isArray \/ Len(body.awbs) = 0 \/ Len(body.awbs) > MAX_SYNC_AWBS

\* The job trackingQueue.add('manual-sync', {...}, { priority: 1 }) adds.
ManualSyncJob(awbs) ==
    [name |-> <<"manual-sync">>, type |-> "priority", awbs |-> awbs,
     batchId |-> "uuid-manual", priority |-> 1, delay |-> 0]

\* The handler of POST /sync for one request: 400 for a rejected body, else
\* one job is added and the response is 200, or trackingQueue.add rejects
\* (Redis is unreachable) and the response is 500.
PostSync(body, addResolves) ==
    /\ req.handled < MaxSyncRequests
    /\ IF SyncBodyRejected(body)
       THEN /\ req' = [handled |-> req.handled + 1, body |-> body, status |-> 400]
            /\ UNCHANGED queue
       ELSE IF addResolves
            THEN /\ queue' = Append(queue, ManualSyncJob(body.awbs))
                 /\ req' = [handled |-> req.handled + 1, body |-> body, status |-> 200]
            ELSE /\ req' = [handled |-> req.handled + 1, body |-> body, status |-> 500]
                 /\ UNCHANGED queue
    /\ UNCHANGED <<now, shipments, sweep, call, proc, syncBatches, manual, cfg, client>>
    /\ UNCHANGED workerVars

NextSync == \E body \in SyncBodies, addResolves \in BOOLEAN : PostSync(body, addResolves)

InitSync ==
    /\ Init
    /\ brk.status = ""
    /\ shipments = [a \in AWBS |-> NewRow]

SpecSync == InitSync /\ [][NextSync]_vars

\* ------------------------------------------------------- browser API client
\* options.maxBatchSize as configure() can be given it: absent (0 is falsy
\* too), negative, below the shipped limit, above the cap.
ConfigureOptions == {0, 0 - 1, 1, CONCURRENT_CAP + 1}

\* configure(): if (options.maxBatchSize) CONFIG.maxConcurrent = Math.min(.., 20).
configure(c, maxBatchSize) ==
    IF maxBatchSize # 0
    THEN [c EXCEPT !.maxConcurrent = Min(maxBatchSize, CONCURRENT_CAP)]
    ELSE c

\* checkRateLimit's filter: the timestamps younger than one minute at time t.
IsRecent(ts, t) == ts > t - MINUTE
RECURSIVE CleanTimestamps(_, _)
CleanTimestamps(tss, t) ==
    IF tss = <<>> THEN <<>>
    ELSE (IF IsRecent(Head(tss), t) THEN <<Head(tss)>> ELSE <<>>)
             \o CleanTimestamps(Tail(tss), t)

\* checkRateLimit on the cleaned timestamps: allowed.
RateLimitAllowed(tss) == ~(Len(tss) >= maxRequestsPerMinute)

\* recordSuccess and recordFailure of the client's own breaker; the reset is a
\* setTimeout that fires CIRCUIT_RESET_MS later.
clientRecordSuccess(c) == [c EXCEPT !.consecutiveFailures = 0, !.circuitOpen = FALSE]
clientRecordFailure(c, t) ==
    LET f == c.consecutiveFailures + 1
    IN  IF f >= CIRCUIT_THRESHOLD
        THEN [c EXCEPT !.consecutiveFailures = f, !.circuitOpen = TRUE,
                       !.resetTimers = @ \cup {t + CIRCUIT_RESET_MS}]
        ELSE [c EXCEPT !.consecutiveFailures = f]

\* executeRequest up to its await: recordRequest(), then fetch() is called.
executeRequest(c, id, t) ==
    [c EXCEPT !.requestTimestamps = Append(@, t),
              !.fetches = Append(@, t),
              !.requests[id].state = "fetch",
              !.requests[id].attempt = @ + 1]

\* reject() of every queued request.
RejectQueued(rs, q) ==
    [id \in DOMAIN rs |->
        IF \E k \in 1..Len(q) : q[k] = id THEN [rs[id] EXCEPT !.state = "rejected"]
        ELSE rs[id]]

\* processQueue from the head of its while loop to its next await (or to its
\* end): the part of the loop that runs in one turn of the event loop at time t.
processQueue(c, t) ==
    IF Len(c.requestQueue) = 0
    THEN [c EXCEPT !.isProcessingQueue = FALSE]
    ELSE IF c.activeRequests >= c.maxConcurrent
    THEN [c EXCEPT !.wake = t]
    ELSE LET tss == CleanTimestamps(c.requestTimestamps, t)
             cleaned == [c EXCEPT !.requestTimestamps = tss]
         IN  IF ~RateLimitAllowed(tss)
             THEN [cleaned EXCEPT !.wake = tss[1] + MINUTE]
             ELSE IF c.circuitOpen
             THEN [cleaned EXCEPT !.requests = RejectQueued(@, c.requestQueue),
                                  !.requestQueue = <<>>,
                                  !.isProcessingQueue = FALSE]
             ELSE executeRequest([cleaned EXCEPT !.requestQueue = Tail(@),
                                                 !.activeRequests = @ + 1,
                                                 !.wake = t],
                                 Head(c.requestQueue), t)

\* What the client's actions leave alone.
ClientUnchanged ==
    /\ UNCHANGED <<shipments, sweep, queue, call, proc, syncBatches, manual, cfg, req>>
    /\ UNCHANGED workerVars

\* API.configure(options).
Configure(maxBatchSize) ==
    /\ client' = configure(client, maxBatchSize)
    /\ UNCHANGED now
    /\ ClientUnchanged

\* queuedRequest: rejected at once when the circuit is open; else
\* checkRateLimit() (it cleans the timestamps), push, and processQueue(), which
\* returns at once when the loop is already running.
QueuedRequest ==
    /\ Len(client.requests) < MaxClientRequests
    /\ LET id == Len(client.requests) + 1
       IN  IF client.circuitOpen
           THEN client' = [client EXCEPT
                             !.requests = Append(@, [state |-> "rejected", attempt |-> 0])]
           ELSE LET pushed == [client EXCEPT
                                 !.requestTimestamps = CleanTimestamps(@, now),
                                 !.requests = Append(@, [state |-> "queued", attempt |-> 0]),
                                 !.requestQueue = Append(@, id)]
                IN  client' = IF client.isProcessingQueue
                              THEN pushed
                              ELSE processQueue([pushed EXCEPT !.isProcessingQueue = TRUE],
                                                now)
    /\ UNCHANGED now
    /\ ClientUnchanged

\* The sleep of processQueue is over: the loop goes on.
ProcessQueueResumes ==
    /\ client.isProcessingQueue
    /\ now >= client.wake
    /\ client' = processQueue(client, now)
    /\ UNCHANGED now
    /\ ClientUnchanged

\* fetch() resolves with an ok response whose body parses: recordSuccess, the
\* request's promise resolves and finally() gives the slot back.
FetchResolves(id) ==
    /\ id \in DOMAIN client.requests
    /\ client.requests[id].state = "fetch"
    /\ client' = [clientRecordSuccess(client) EXCEPT
                     !.requests[id].state = "resolved",
                     !.activeRequests = @ - 1]
    /\ UNCHANGED now
    /\ ClientUnchanged

\* fetch() resolves with a non-ok status (the error carries a status and is
\* not retried) or rejects (network error or abort: retried while
\* attempt < retryAttempts, after a sleep of about a second).
FetchFails(id, hasStatus) ==
    /\ id \in DOMAIN client.requests
    /\ client.requests[id].state = "fetch"
    /\ LET failed == clientRecordFailure(client, now)
       IN  client' = IF client.requests[id].attempt < retryAttempts /\ ~hasStatus
                     THEN [failed EXCEPT !.requests[id].state = "backoff"]
                     ELSE [failed EXCEPT !.requests[id].state = "rejected",
                                         !.activeRequests = @ - 1]
    /\ UNCHANGED now
    /\ ClientUnchanged

\* requestWithRetry after its sleep: executeRequest again.
RetryRequest(id) ==
    /\ id \in DOMAIN client.requests
    /\ client.requests[id].state = "backoff"
    /\ client' = executeRequest(client, id, now)
    /\ UNCHANGED now
    /\ ClientUnchanged

\* The setTimeout of recordFailure fires: the circuit is closed again.
CircuitReset ==
    /\ \E t \in client.resetTimers :
          /\ now >= t
          /\ client' = [client EXCEPT !.circuitOpen = FALSE, !.consecutiveFailures = 0,
                                      !.resetTimers = @ \ {t}]
    /\ UNCHANGED now
    /\ ClientUnchanged

\* Time passes in the browser.
ClientTick ==
    /\ now < ClientMaxTime
    /\ now' = now + 1
    /\ UNCHANGED client
    /\ ClientUnchanged

NextClient ==
    \/ \E maxBatchSize \in ConfigureOptions : Configure(maxBatchSize)
    \/ QueuedRequest
    \/ ProcessQueueResumes
    \/ \E id \in 1..MaxClientRequests : FetchResolves(id)
    \/ \E id \in 1..MaxClientRequests, hasStatus \in BOOLEAN : FetchFails(id, hasStatus)
    \/ \E id \in 1..MaxClientRequests : RetryRequest(id)
    \/ CircuitReset
    \/ ClientTick

InitClient ==
    /\ Init
    /\ brk.status = ""
    /\ shipments = [a \in AWBS |-> NewRow]

SpecClient == InitClient /\ [][NextClient]_vars

\* ================================================================== claims
RECURSIVE SumIssued(_, _)
SumIssued(from, to) ==
    IF from > to THEN 0
    ELSE (IF from >= 0 THEN issued[from] ELSE 0) + SumIssued(from + 1, to)

\* Upstream calls issued in the window (now - windowMs, now].
IssuedInWindow == SumIssued(now - windowMs + 1, now)

\* Calls in flight: fetch() pending, or the response body still being read.
InFlight == {w \in Fleet : wk[w].pc \in {"fetch", "body"}}

\* Positions of a call inside the catch block, and after its return.
CatchPath == {"rf_incr", "rf_set", "c_update", "c_log", "done"}

\* Positions of a call that passed the breaker check and has not yet got
\* the outcome of its upstream call.
Admitted == {"rate", "sem", "fetch", "body"}

\* C1: in every window of windowMs the fleet issues at most maxRequests
\* upstream HTTP calls.
C1_CallsPerWindowWithinLimit == IssuedInWindow <= maxRequests

\* C2: at every instant at most maxConcurrent upstream calls are in flight.
C2_InFlightWithinCeiling == Cardinality(InFlight) <= maxConcurrent

\* C3: every semaphore acquire and every getCurrent leaves no slot in the set
\* that is ttlMs old or older (a crashed holder's slot included), and an
\* acquire that finds fewer than maxConcurrent younger slots succeeds.
C3_ExpiredSlotReclaimed ==
    [][/\ ((\E w \in Fleet : SemTry(w)) \/ GetCurrent)
           => \A e \in sem' : now - e.score < ttlMs
       /\ \A w \in Fleet :
            (SemTry(w) /\ Cardinality({e \in sem : now - e.score < ttlMs}) < maxConcurrent)
               => wk'[w].pc = "fetch"]_vars

\* C3 witness: the slot of a crashed holder has been pruned and another call
\* holds the only slot.
C3_Witness ==
    \E r \in leaked :
        /\ \A e \in sem : e.member # r
        /\ \E w \in Fleet : wk[w].pc = "fetch" /\ \E e \in sem : e.member = wk[w].rid

\* C4: the status is open only after failureThreshold recordFailure calls
\* since the last recordSuccess.
C4_OpenOnlyAfterThreshold ==
    brk.status = "open" => consecFails >= failureThreshold

\* C5: while the status is open and the reset timeout has not
\* elapsed, no worker issues an upstream call.
C5_NoCallIssuedWhileOpen ==
    [][(brk.status = "open" /\ ~(now - brk.openedAt > resetTimeout))
          => \A w \in Fleet : ~(wk[w].pc = "sem" /\ wk'[w].pc = "fetch")]_vars

\* C6: while the status is half-open, at most one call admitted by the
\* half-open transition (or by a read of half-open) is on its way upstream.
C6_SingleProbe ==
    brk.status = "half-open" =>
        Cardinality({w \in Fleet : /\ wk[w].chk \in {"expired", "half"}
                                     /\ wk[w].pc \in Admitted}) <= 1

\* C7: from half-open, recordSuccess writes closed with failures 0, and
\* recordFailure goes on to write open with openedAt = now.
C7_HalfOpenResolves ==
    [][\A w \in Fleet :
         /\ (brk.status = "half-open" /\ RecordSuccess(w))
               => (brk'.status = "closed" /\ brk'.failures = 0)
         /\ (brk.status = "half-open" /\ RecordFailure(w))
               => wk'[w].pc = "rf_set"
         /\ RecordFailureSet(w)
               => (brk'.status = "open" /\ brk'.openedAt = now)]_vars

\* C8: a short-circuited call changes neither failures nor openedAt.
C8_ShortCircuitLeavesBreaker ==
    [][\A w \in Fleet :
         (wk[w].err = "breaker" /\ wk'[w] # wk[w])
            => (brk'.failures = brk.failures /\ brk'.openedAt = brk.openedAt)]_vars

\* C9: a call that failed with a quota error changes neither the failures
\* counter nor the status of the breaker.
C9_QuotaErrorLeavesBreaker ==
    [][\A w \in Fleet :
         (wk[w].err = "quota" /\ wk'[w] # wk[w])
            => (brk'.failures = brk.failures /\ brk'.status = brk.status)]_vars

\* Rows of sync_logs for one batch and AWB.
LogRows(batch, awb) ==
    {i \in 1..Len(syncLogs) : syncLogs[i].batch_id = batch /\ syncLogs[i].awb = awb}

\* C10: a short-circuited call never leaves the catch block except by
\* returning success = false, and then sync_logs holds exactly one row for
\* its batch and AWB, with success = false.
C10_ShortCircuitLoggedOnce ==
    \A w \in Fleet :
        wk[w].err = "breaker" =>
            /\ wk[w].pc \in CatchPath
            /\ wk[w].pc = "done" =>
                  /\ wk[w].ret = [returned |-> TRUE, success |-> FALSE, changed |-> FALSE]
                  /\ Cardinality(LogRows(BatchOf(w), wk[w].awb)) = 1
                  /\ \A i \in LogRows(BatchOf(w), wk[w].awb) : syncLogs[i].success = FALSE

\* C10 witness: a short-circuited call has returned.
C10_Witness ==
    \E w \in Fleet : wk[w].err = "breaker" /\ wk[w].pc = "done"

\* C11: the UPDATE of the unchanged branch writes last_synced_at,
\* next_sync_at and sync_failures (0) and no other column of the row.
C11_UnchangedWritesThreeColumns ==
    [][\A w \in Fleet :
         SkipUnchanged(w) =>
            LET old == shipments[wk[w].awb]
                new == shipments'[wk[w].awb]
            IN  new = [old EXCEPT !.last_synced_at = new.last_synced_at,
                                  !.next_sync_at = new.next_sync_at,
                                  !.sync_failures = 0]]_vars

\* C11 (as amended): the UPDATE of the unchanged branch leaves status_code,
\* the descriptive fields, data_hash, last_error and sync_priority as they
\* were; it writes last_synced_at, next_sync_at, sync_failures (0), and the
\* update trigger stamps updated_at.
C11_UnchangedKeepsRecord ==
    [][\A w \in Fleet :
         SkipUnchanged(w) =>
            LET old == shipments[wk[w].awb]
                new == shipments'[wk[w].awb]
            IN  /\ new = [old EXCEPT !.last_synced_at = now,
                                     !.next_sync_at = new.next_sync_at,
                                     !.sync_failures = 0,
                                     !.updated_at = now]
                /\ wk'[w].ret = [returned |-> TRUE, success |-> TRUE, changed |-> FALSE]]_vars

\* C11 witness: an unchanged sync has returned at a later tick; the row
\* still holds the stored shipper name, which the payload no longer has.
C11_Witness ==
    \E w \in Fleet :
        /\ wk[w].pc = "done" /\ wk[w].ret.success /\ ~wk[w].ret.changed
        /\ shipments[wk[w].awb].shipper_name = "S0"
        /\ shipments[wk[w].awb].last_synced_at > 0

\* Rows of sync_logs for one batch and AWB with the given success flag.
LogRowsWith(batch, awb, success) ==
    {i \in LogRows(batch, awb) : syncLogs[i].success = success}

\* C12: a sync that returned success with changed = false has appended
\* exactly one sync_logs row for its AWB, with success = true and
\* changed = false.
C12_UnchangedSyncLogged ==
    \A w \in Fleet :
        (wk[w].pc = "done" /\ wk[w].ret.success /\ ~wk[w].ret.changed) =>
            /\ Cardinality(LogRowsWith(BatchOf(w), wk[w].awb, TRUE)) = 1
            /\ \A i \in LogRowsWith(BatchOf(w), wk[w].awb, TRUE) :
                   syncLogs[i].changed = "false"

\* A call that took the changed branch: it is at the upsert or at the log
\* INSERT, or it has returned from there, or that INSERT threw.
TookChangedBranch(w) ==
    \/ wk[w].pc \in {"upsert", "log"}
    \/ wk[w].ret.changed
    \/ wk[w].err = "storage"

\* C13: a call that took the changed branch never enters the catch block;
\* when it has returned it returned success = true, changed = true, exactly
\* one success row and no failure row were appended for its batch and AWB,
\* and it did not call recordFailure.
C13_ChangedSyncRecorded ==
    \A w \in Fleet :
        TookChangedBranch(w) =>
            /\ wk[w].pc \notin CatchPath \ {"done"}
            /\ wk[w].recorded = 0
            /\ wk[w].pc = "done" =>
                  /\ wk[w].ret = [returned |-> TRUE, success |-> TRUE, changed |-> TRUE]
                  /\ Cardinality(LogRowsWith(BatchOf(w), wk[w].awb, TRUE)) = 1
                  /\ LogRowsWith(BatchOf(w), wk[w].awb, FALSE) = {}

\* The errors of steps 2 and 3: a permit was not acquired, or the upstream
\* call failed.
FetchErrors == {"quota", "upstream"}

C15_NextSyncFromStoredFields ==
    [][\A w \in Fleet :
         (SkipUnchanged(w) \/ Upsert(w) \/ FailureUpdate(w)) =>
            LET new == shipments'[wk[w].awb]
            IN  new.exists =>
                  new.next_sync_at =
                     now + base_interval(new.status_code) * Min(POWER2(new.sync_failures), 24)]_vars

\* 24 hours, in minutes.
OneDay == 24 * 60

\* C17: a failed attempt that leaves the backoff multiplier at its cap
\* (2^sync_failures >= 24) schedules the next attempt at least 24 hours
\* later.
C17_CappedRetryAtMostDaily ==
    [][\A w \in Fleet :
         (FailureUpdate(w) /\ shipments'[wk[w].awb].exists
                           /\ POWER2(shipments'[wk[w].awb].sync_failures) >= 24) =>
            shipments'[wk[w].awb].next_sync_at >= now + OneDay]_vars

\* The base intervals as the contract lists them, in minutes.
ContractBase(status) ==
    IF status \in {"DDL", "CAN"} THEN 24 * 60
    ELSE IF status = "RTO" THEN 12 * 60
    ELSE IF status \in {"OFD", "DDS"} THEN 30
    ELSE IF status = "UDD" THEN 2 * 60
    ELSE 60

QueuedAwbs == UNION {{queue[k].awbs[q] : q \in 1..Len(queue[k].awbs)} : k \in 1..Len(queue)}

\* C18: a shipment with sync_failures >= 10 is never placed in a job by the
\* full sweep or by the priority sweep, and no row is deleted.
C18_QuarantinedNeverScheduled ==
    /\ \A a \in QueuedAwbs : shipments[a].sync_failures < 10
    /\ \A a \in DOMAIN shipments : sweep.pc # "idle" => shipments[a].exists

\* C19: the full sweep selects only due shipments (next_sync_at <= now and
\* sync_failures < 10), at most the limit of them, each once, ordered by
\* sync_priority, then next_sync_at, then sync_failures, all ascending; a
\* shipment whose next_sync_at is in the future is not selected.
C19_SweepSelectsDueInOrder ==
    sweep.pc # "idle" =>
        /\ Len(sweep.awbs) <= SWEEP_LIMIT
        /\ \A i \in 1..Len(sweep.awbs) :
              LET row == shipments[sweep.awbs[i]] IN
                /\ row.next_sync_at <= now
                /\ ~(row.next_sync_at > now)
                /\ row.sync_failures < 10
        /\ \A i, j \in 1..Len(sweep.awbs) :
              i < j =>
                LET r1 == shipments[sweep.awbs[i]]
                    r2 == shipments[sweep.awbs[j]] IN
                  /\ sweep.awbs[i] # sweep.awbs[j]
                  /\ r1.sync_priority <= r2.sync_priority
                  /\ r1.sync_priority = r2.sync_priority =>
                        r1.next_sync_at <= r2.next_sync_at
                  /\ (r1.sync_priority = r2.sync_priority
                        /\ r1.next_sync_at = r2.next_sync_at) =>
                        r1.sync_failures <= r2.sync_failures

\* The full sweep selected two shipments of different priority and left out
\* a shipment due in the future and a due shipment at the failure cap.
C19_Witness ==
    /\ sweep.pc = "selected"
    /\ Len(sweep.awbs) = 2
    /\ shipments[sweep.awbs[1]].sync_priority < shipments[sweep.awbs[2]].sync_priority
    /\ shipments[sweep.awbs[1]].next_sync_at > shipments[sweep.awbs[2]].next_sync_at
    /\ \E a \in AllAwbs : shipments[a].next_sync_at > now
    /\ \E a \in AllAwbs :
          shipments[a].next_sync_at <= now /\ shipments[a].sync_failures >= 10

\* The jobs of the full sweep, in the order they were added.
IsBatchJob(job) == job.type = "batch"
BatchJobs == SelectSeq(queue, IsBatchJob)

RECURSIVE Flatten(_, _)
Flatten(js, k) == IF k > Len(js) THEN <<>> ELSE js[k].awbs \o Flatten(js, k + 1)

\* C20: the full sweep splits the selected AWBs into consecutive batches of 1
\* to BATCH_SIZE AWBs, every selected AWB is in exactly one batch, the batches
\* in index order give back the selection, and the batch with index i is
\* enqueued with a delay of i seconds.
C20_BatchesPartitionSelection ==
    (sweep.pc = "done" /\ Len(sweep.awbs) > 0) =>
        /\ Len(BatchJobs) >= 1
        /\ \A k \in 1..Len(BatchJobs) :
              /\ Len(BatchJobs[k].awbs) >= 1
              /\ Len(BatchJobs[k].awbs) <= BATCH_SIZE
              /\ BatchJobs[k].name[3] = k - 1
              /\ BatchJobs[k].delay = (k - 1) * 1000
        /\ Flatten(BatchJobs, 1) = sweep.awbs
        /\ \A a \in {sweep.awbs[p] : p \in 1..Len(sweep.awbs)} :
              Cardinality({<<k, q>> \in (1..Len(BatchJobs)) \X (1..BATCH_SIZE) :
                             /\ q <= Len(BatchJobs[k].awbs)
                             /\ BatchJobs[k].awbs[q] = a}) = 1

\* The full sweep enqueued a full batch and a shorter last batch.
C20_Witness ==
    /\ sweep.pc = "done"
    /\ Len(BatchJobs) = 2
    /\ Len(BatchJobs[1].awbs) = BATCH_SIZE
    /\ Len(BatchJobs[2].awbs) < BATCH_SIZE
    /\ BatchJobs[2].delay = 1000

\* Positions of a call of syncSingleAwb that has started and not ended.
InProgress(w) == wk[w].pc \notin {"idle", "done", "crashed", "thrown"}

\* C24: at most one sync of a given AWB is in progress across the fleet, and
\* no write moves a shipment's next_sync_at to an earlier time.
C24_OneSyncPerAwbAndForwardOnly ==
    [][/\ \A w1, w2 \in Fleet :
             (w1 # w2 /\ InProgress(w1) /\ InProgress(w2)) => wk[w1].awb # wk[w2].awb
       /\ \A a \in DOMAIN shipments :
             shipments'[a].next_sync_at >= shipments[a].next_sync_at]_vars

\* Positions of fetchTracking between the semaphore acquire and the release
\* of its finally block.
HoldsSlot == {"fetch", "body", "recSuccess", "release"}

\* C27: a call that is not between its semaphore acquire and the end of
\* fetchTracking's finally block has no requestId of its own in the
\* semaphore set, whatever the outcome of its upstream call was (a call whose
\* process died neither returned nor threw).
C27_SlotReleasedOnEveryOutcome ==
    \A w \in Fleet :
        wk[w].pc \notin (HoldsSlot \cup {"crashed"}) =>
            \A e \in sem : e.member[3] # w

\* A call whose upstream call failed has left fetchTracking while the other
\* call holds the only slot.
C27_Witness ==
    \E w, v \in Fleet :
        /\ wk[w].pc \in CatchPath /\ wk[w].err = "upstream"
        /\ wk[v].pc = "fetch"
        /\ \E e \in sem : e.member = wk[v].rid

\* C29: an upstream call that is pending or whose response body is being
\* read started at most REQUEST_TIMEOUT ago (its slot carries the time fetch
\* was called): a stalled call is aborted at the per-call timeout.
C29_UpstreamCallAborted ==
    \A w \in Fleet :
        wk[w].pc \in {"fetch", "body"} =>
            \E e \in sem : e.member = wk[w].rid /\ now - e.score <= REQUEST_TIMEOUT

\* C30: every shipment has 0 <= sync_failures <= 10 after every step, and
\* the write of a successful sync (the unchanged UPDATE or the upsert) stores
\* sync_failures = 0.
C30_FailuresWithinCap ==
    [][/\ \A a \in DOMAIN shipments :
             shipments'[a].sync_failures >= 0 /\ shipments'[a].sync_failures <= 10
       /\ \A w \in Fleet :
             (wk[w].pc \in {"update", "upsert"} /\ wk'[w].pc \in {"done", "log"})
                 => shipments'[wk[w].awb].sync_failures = 0]_vars

\* A row at the cap took another failure and stayed at the cap.
C30_Witness ==
    \E w \in Fleet :
        /\ wk[w].pc = "c_log"
        /\ shipments[wk[w].awb].sync_failures = SYNC_FAILURES_CAP
        /\ shipments[wk[w].awb].last_error = wk[w].err

\* C28: for every value of MAX_CONCURRENT_REQUESTS and REQUESTS_PER_MINUTE in
\* the environment the limiters are built with maxConcurrent <= 20 and
\* maxRequests <= 60 (a limit that is not a number admits nothing and
\* exceeds nothing).
C28_LimitsWithinUpstream ==
    cfg.built =>
        /\ cfg.maxConcurrent.nan \/ cfg.maxConcurrent.n <= 20
        /\ cfg.maxRequests.nan \/ cfg.maxRequests.n <= 60

\* C21: two different jobs of the queue, the several jobs of one full sweep
\* included, never carry the same batch_id.
C21_JobsHaveOwnBatchId ==
    \A i, j \in 1..Len(queue) : i # j => queue[i].batchId # queue[j].batchId

\* The calls of syncSingleAwb made for job k.
CallsOfJob(k) == {CallOf(k, p) : p \in 1..Len(proc[k].awbs)}

\* A statement of job k was rejected by the database.
StorageError(k) == \E w \in CallsOfJob(k) : wk[w].pc = "thrown" \/ wk[w].err = "storage"

\* C22: when permits or the upstream call failed for an AWB of a job and no
\* storage statement of any job was rejected, every call of the job returned
\* (none threw) and the job ends with its batch completed and
\* processed = total_awbs.
C22_BadAwbDoesNotFailBatch ==
    [][\A k \in DOMAIN proc :
          (/\ proc[k].pc # "returned"
           /\ proc'[k].pc = "returned"
           /\ \A j \in DOMAIN proc : ~StorageError(j)
           /\ \E w \in CallsOfJob(k) : wk[w].err \in FetchErrors)
          => /\ \A w \in CallsOfJob(k) : wk[w].ret.returned
             /\ syncBatches'[proc[k].batchId].status = "completed"
             /\ syncBatches'[proc[k].batchId].processed
                    = syncBatches'[proc[k].batchId].total_awbs]_vars

\* C23: a job in which the database rejected a write of the shipment store
\* or of the audit log does not return as a completed batch: it fails.
C23_StorageErrorFailsJob ==
    \A k \in DOMAIN proc :
        (\E w \in CallsOfJob(k) : wk[w].err = "storage") => proc[k].pc # "returned"

\* C26: within a job the sync of the AWB at position p + 1 has not started
\* unless the sync of the AWB at position p has returned, so at most one
\* sync, and at most one upstream call, of the job is in progress.
C26_BatchIsSequential ==
    \A k \in DOMAIN proc :
        /\ \A p \in 1..(Len(proc[k].awbs) - 1) :
              wk[CallOf(k, p + 1)].pc # "idle" =>
                  wk[CallOf(k, p)].pc = "done" /\ wk[CallOf(k, p)].ret.returned
        /\ Cardinality({w \in CallsOfJob(k) : InProgress(w)}) <= 1
        /\ Cardinality(CallsOfJob(k) \cap InFlight) <= 1

\* The second sync of a job has its upstream call in flight after the first
\* sync of the job failed and returned.
C26_Witness ==
    \E k \in DOMAIN proc :
        /\ Len(proc[k].awbs) >= 2
        /\ wk[CallOf(k, 1)].pc = "done" /\ ~wk[CallOf(k, 1)].ret.success
        /\ wk[CallOf(k, 2)].pc = "fetch"

\* C25: while one run of enqueueSyncJobs is between its selection and its
\* addBulk, no other run of enqueueSyncJobs is.
C25_OneSweepAtATime == ~(sweep.pc = "selected" /\ manual.pc = "selected")

\* C32: status half-open is written only over a breaker that, at the moment
\* of the write, is open with an expired cooldown.
C32_HalfOpenWrittenOverExpiredOpen ==
    [][\A w \in Fleet :
          (wk[w].pc = "halfOpen" /\ wk'[w].pc = "rate" /\ brk' = HalfOpenState(brk))
              => (brk.status = "open" /\ now - brk.openedAt > resetTimeout)]_vars

\* C33: whenever the shared breaker's status is open, its failures field is
\* at least the threshold.
C33_OpenHasThresholdFailures ==
    brk.status = "open" => brk.failures >= failureThreshold

\* The steps of call w that stand between the entry of syncSingleAwb and the
\* upstream call, each seen in the raw state before and after the step.
PassedBreaker(w) ==
    /\ wk[w].pc \in {"isOpen", "halfOpen"}
    /\ wk[w].pc = "isOpen" =>
          ~(brk.status = "open" /\ ~(now - brk.openedAt > resetTimeout))
    /\ wk[w].pc = "halfOpen" => wk[w].chk = "expired"
AcquiredPermit(w) ==
    /\ wk[w].pc = "rate"
    /\ \E e \in rl' : e.score = now
AcquiredSlot(w) ==
    /\ wk[w].pc = "sem"
    /\ wk'[w].rid = wk[w].rid
    /\ [member |-> wk[w].rid, score |-> now] \in sem'
HasSlot(z, w) == \E e \in z : e.member = wk[w].rid

\* C34: a call reaches the rate limiter only from an isOpen that returned
\* false, the semaphore only from a granted permit, and fetch only from a
\* granted slot under its requestId; while the upstream call is pending or its
\* body is read no step of the caller takes its slot away, the caller's
\* release comes after the call; and recordSuccess is reached only from a
\* body that was 'Success' with data[0].
C34_CallPrecededByChecks ==
    [][\A w \in Workers :
          /\ (wk[w].pc # "rate" /\ wk'[w].pc = "rate") => PassedBreaker(w)
          /\ (wk[w].pc # "sem" /\ wk'[w].pc = "sem") => AcquiredPermit(w)
          /\ (wk[w].pc # "fetch" /\ wk'[w].pc = "fetch") => AcquiredSlot(w)
          /\ (wk[w].pc # "body" /\ wk'[w].pc = "body") => wk[w].pc = "fetch"
          /\ (wk[w].pc \in {"fetch", "body"} /\ wk'[w] # wk[w] /\ HasSlot(sem, w))
                => HasSlot(sem', w)
          /\ (HasSlot(sem, w) /\ ~HasSlot(sem', w) /\ wk'[w] # wk[w])
                => wk[w].pc = "release"
          /\ (wk[w].pc # "recSuccess" /\ wk'[w].pc = "recSuccess")
                => (wk[w].pc = "body" /\ wk'[w].apiData \in Payloads)
          /\ (wk'[w] # wk[w] /\ brk' = RecordSuccessState(brk) /\ brk' # brk)
                => wk[w].pc = "recSuccess"]_vars

\* A call that passed a half-open transition, a permit and a slot has read a
\* valid body and is about to call recordSuccess, its slot still in the set.
C34_Witness ==
    \E w \in Workers :
        /\ wk[w].pc = "recSuccess" /\ wk[w].chk = "expired"
        /\ HasSlot(sem, w)
        /\ rl # {}

\* C37: when the changed branch is about to insert its success row, the
\* response_time_ms it passes fits the INTEGER column.
C37_ResponseTimeFitsInteger ==
    \A w \in Fleet : wk[w].pc = "log" => FitsInteger(DateNowSeconds(now))

\* The jobs of the queue that carry AWB a.
JobsCarrying(a) ==
    {k \in 1..Len(queue) : \E q \in 1..Len(queue[k].awbs) : queue[k].awbs[q] = a}

\* C35: each AWB is carried by at most one job waiting in the queue, whether
\* the full sweep or the priority sweep put it there.
C35_AwbInAtMostOneJob ==
    \A a \in AllAwbs : Cardinality(JobsCarrying(a)) <= 1

\* C36: a batch row that is completed or failed keeps its status, and a row
\* whose status is completed has processed = total_awbs,
\* processed = succeeded + failed and skipped <= succeeded.
C36_BatchRowForwardOnly ==
    [][\A b \in DOMAIN syncBatches :
          /\ syncBatches[b].status \in {"completed", "failed"}
                => syncBatches'[b].status = syncBatches[b].status
          /\ syncBatches'[b].status = "completed"
                => /\ syncBatches'[b].processed = syncBatches'[b].total_awbs
                   /\ syncBatches'[b].processed
                         = syncBatches'[b].succeeded + syncBatches'[b].failed
                   /\ syncBatches'[b].skipped <= syncBatches'[b].succeeded]_vars

\* C31: a body that is not an array of 1 to 20 AWBs is answered 400 and adds
\* nothing to the queue; for an array of 1 to 20 AWBs the handler adds exactly
\* one job, with priority 1 and exactly those AWBs, and answers 200, unless
\* the queue refused the job (500, nothing added).
C31_ForceSyncTakesOneToTwenty ==
    [][req'.handled # req.handled =>
          LET b == req'.body IN
            IF b.isArray /\ Len(b.awbs) >= 1 /\ Len(b.awbs) <= 20
            THEN \/ /\ req'.status = 200
                    /\ Len(queue') = Len(queue) + 1
                    /\ SubSeq(queue', 1, Len(queue)) = queue
                    /\ queue'[Len(queue')].priority = 1
                    /\ queue'[Len(queue')].awbs = b.awbs
                 \/ /\ req'.status = 500
                    /\ queue' = queue
            ELSE /\ req'.status = 400
                 /\ queue' = queue]_vars

\* A request of 21 AWBs was refused after a request of 20 AWBs was enqueued.
C31_Witness ==
    /\ req.handled = 2
    /\ req.status = 400 /\ req.body.isArray /\ Len(req.body.awbs) = 21
    /\ Len(queue) = 1 /\ Len(queue[1].awbs) = 20 /\ queue[1].priority = 1

\* C38: activeRequests never exceeds CONFIG.maxConcurrent, and
\* CONFIG.maxConcurrent is never above the cap of configure().
C38_ActiveWithinMaxConcurrent ==
    /\ client.activeRequests <= client.maxConcurrent
    /\ client.maxConcurrent <= CONCURRENT_CAP

\* Fetches started in the minute that ends at tick t.
FetchesInMinute(t) ==
    Cardinality({i \in 1..Len(client.fetches) :
                    client.fetches[i] > t - MINUTE /\ client.fetches[i] <= t})

\* C39: in every minute the client starts at most maxRequestsPerMinute
\* fetches, the retries of requestWithRetry included.
C39_FetchesWithinRateLimit ==
    \A t \in 0..ClientMaxTime : FetchesInMinute(t) <= maxRequestsPerMinute

====
